---- MODULE Spec2Model ----
(***************************************************************************)
(* A model of src/win.rs: the Windows file-identity Handle.  A Handle owns *)
(* (or borrows) an open OS handle and the identity Key captured from it by *)
(* one GetFileInformationByHandle query; Handles are compared and hashed   *)
(* by that Key.                                                            *)
(*                                                                         *)
(* 32-bit and 64-bit unsigned integers are kept at their full width as     *)
(* big-endian tuples of 16-bit limbs: a u32 is <<hi, lo>>, a u64 is        *)
(* <<l3, l2, l1, l0>>.                                                     *)
(***************************************************************************)
EXTENDS Integers, Sequences, FiniteSets

VARIABLES
    fs,         \* the file system: file -> its metadata, or NoFile
    std,        \* what each standard stream of the process is attached to
    stdClosed,  \* the standard streams on which CloseHandle was issued
    handles,    \* the live Handle objects, by address
    last        \* the last operation of the library and how it ended

vars == <<fs, std, stdClosed, handles, last>>

----------------------------------------------------------------------------
(* Bounds of the model *)

MaxHandles == 3

(* Machine integers *)

LimbBits == 2 * 8           \* a limb is two bytes
LimbBase == 2 ^ LimbBits
ShiftBits == 32

U32Zero == <<0, 0>>
U32One == <<0, 1>>
U32Max == <<LimbBase - 1, LimbBase - 1>>

\* `x as u64` for a u32 x: zero extension.
AsU64(x) == U32Zero \o x

RECURSIVE BitOr(_, _)
BitOr(a, b) ==
    IF a = 0 THEN b
    ELSE IF b = 0 THEN a
    ELSE (IF a % 2 = 1 \/ b % 2 = 1 THEN 1 ELSE 0) + 2 * BitOr(a \div 2, b \div 2)

\* x | y on u64.
Or64(x, y) == [i \in 1..4 |-> BitOr(x[i], y[i])]

\* x << k on u64, for k a multiple of the limb width; bits shifted out are lost.
Shl64(x, k) ==
    LET n == k \div LimbBits
    IN  [i \in 1..4 |-> IF i + n <= 4 THEN x[i + n] ELSE 0]

----------------------------------------------------------------------------
(* The environment: files, devices, standard streams *)

Files == {"A", "B"}
NoIdentity == "NUL"         \* an object GetFileInformationByHandle fails on
Targets == Files \cup {NoIdentity}
Streams == {"stdin", "stdout", "stderr"}
Closed == "closed"          \* what the raw handle of no Handle refers to

Words == {U32One, U32Max}
Sizes == {U32Zero, U32One}
Meta == [serial : Words, high : Words, low : Words, size : Sizes]
BaseMeta == [serial |-> U32One, high |-> U32One, low |-> U32Max, size |-> U32Zero]
\* The metadata file f may have: "A" is the reference file; the identity and
\* the size of "B" range over every relation to those of "A".
MetaOf(f) == IF f = "A" THEN {BaseMeta} ELSE Meta
\* What a standard stream may be attached to: a console, or (stdin, by
\* redirection) file "A".
StdTargets(s) == IF s = "stdin" THEN {NoIdentity, "A"} ELSE {NoIdentity}
NoFile == [serial |-> U32Zero, high |-> U32Zero, low |-> U32Zero, size |-> U32Zero]

Exists(t) == IF t = NoIdentity THEN TRUE ELSE fs[t] # NoFile

\* Raw handle values: the OS gives a file opened for the Handle at address i
\* the value i; the standard streams have values of their own.  A raw handle
\* that into_raw_handle gave to the caller is the caller's, and leaves the model.
RawIds == 1..MaxHandles
StdRaw(s) == CASE s = "stdin" -> MaxHandles + 1
               [] s = "stdout" -> MaxHandles + 2
               [] s = "stderr" -> MaxHandles + 3

StreamOf(raw) == CHOOSE s \in Streams : StdRaw(s) = raw

----------------------------------------------------------------------------
(* Key and Option<Key> *)

None == [tag |-> "None"]
Some(k) == [tag |-> "Some", val |-> k]
IsNone(o) == o.tag = "None"
IsSome(o) == o.tag = "Some"

\* Mutants of KeyEq: the volume is not compared; the fields are joined by ||.
KeyEqIndexOnly(k1, k2) == k1.index = k2.index
KeyEqEither(k1, k2) == k1.volume = k2.volume \/ k1.index = k2.index

\* #[derive(PartialEq)] on Key: field by field.
KeyEq(k1, k2) == k1.volume = k2.volume /\ k1.index = k2.index

\* Option<Key> == Option<Key>.
OptionKeyEq(o1, o2) ==
    \/ IsNone(o1) /\ IsNone(o2)
    \/ IsSome(o1) /\ IsSome(o2) /\ KeyEq(o1.val, o2.val)

\* #[derive(Hash)] on Key: what it writes to the Hasher, field by field.
KeyHash(k) == <<k.volume, k.index>>

\* Option<Key>::hash: the discriminant, then the value.
OptionKeyHash(o) == IF IsNone(o) THEN <<0>> ELSE <<1>> \o KeyHash(o.val)

----------------------------------------------------------------------------
(* winutil::information *)

\* GetFileInformationByHandle on a handle that refers to object t: 0 on an
\* object with no file identity, else the BY_HANDLE_FILE_INFORMATION of the file.
GetFileInformationByHandle(t) ==
    IF t = NoIdentity THEN [ret |-> 0, info |-> NoFile]
    ELSE [ret |-> 1, info |-> fs[t]]

\* Mutant of PackKey: the shift is done on the u32, where a shift by 32 wraps
\* to a shift by 0, and the result is widened afterwards.
PackKeyShiftWraps(info) ==
    [volume |-> AsU64(info.serial),
     index  |-> Or64(AsU64(info.high), AsU64(info.low))]

PackKey(info) ==
    [volume |-> AsU64(info.serial),
     index  |-> Or64(Shl64(AsU64(info.high), ShiftBits), AsU64(info.low))]

information(t) ==
    LET q == GetFileInformationByHandle(t)
    IN  IF q.ret = 0 THEN [ok |-> FALSE, key |-> None]
        ELSE [ok |-> TRUE, key |-> Some(PackKey(q.info))]

----------------------------------------------------------------------------
(* Handle *)

\* A Handle: its variant, its key, the raw handle of its File and what that
\* refers to, and whether the Option<File> of a HandleRef holds the File.
NoHandle == [kind |-> "NoHandle", key |-> None, raw |-> 0, target |-> Closed, file |-> "None"]
NewHandle(kind, key, raw, t) ==
    [kind |-> kind, key |-> key, raw |-> raw, target |-> t, file |-> "Some"]
Slots == 1..MaxHandles
Live == {i \in Slots : handles[i] # NoHandle}

\* Some Handle or standard stream has file f open.
HasOpenHandle(f) ==
    \/ \E i \in Slots : handles[i].target = f
    \/ \E s \in Streams : std[s] = f

\* Mutant of Eq: the branch on the identity of the two objects is missing.
EqNoIdentityBranch(a, b) ==
    IF IsNone(handles[a].key) \/ IsNone(handles[b].key) THEN FALSE
    ELSE OptionKeyEq(handles[a].key, handles[b].key)

\* PartialEq for Handle; a and b are the addresses of the two Handles.
Eq(a, b) ==
    IF a = b THEN TRUE
    ELSE IF IsNone(handles[a].key) \/ IsNone(handles[b].key) THEN FALSE
    ELSE OptionKeyEq(handles[a].key, handles[b].key)

\* Mutant of Hash: the raw handle is hashed too.
HashWithRaw(h) == <<h.raw>> \o OptionKeyHash(h.key)

\* Hash for Handle: what it writes to the Hasher.
Hash(h) == OptionKeyHash(h.key)

\* Mutant of from_handle: a failed query gives a Handle with no key, as for
\* the standard streams.
from_handle_AbsentKey(raw, t) ==
    LET r == information(t)
    IN  [ok |-> TRUE, handle |-> NewHandle("Owned", r.key, raw, t)]

\* Handle::from_handle, on a winutil::Handle whose raw handle refers to t.
from_handle(raw, t) ==
    LET r == information(t)
    IN  IF ~r.ok THEN [ok |-> FALSE, handle |-> NoHandle]
        ELSE [ok |-> TRUE, handle |-> NewHandle("Owned", r.key, raw, t)]

\* Mutant of from_std_handle: the error of the query is returned (`?`).
from_std_handle_Propagates(raw, t) ==
    LET r == information(t)
    IN  IF ~r.ok THEN [ok |-> FALSE, handle |-> NoHandle]
        ELSE [ok |-> TRUE, handle |-> NewHandle("Borrowed", r.key, raw, t)]

\* Handle::from_std_handle, on a winutil::HandleRef whose raw handle refers to t.
from_std_handle(raw, t) ==
    LET r == information(t)
    IN  IF r.ok
        THEN [ok |-> TRUE, handle |-> NewHandle("Borrowed", r.key, raw, t)]
        ELSE [ok |-> TRUE, handle |-> NewHandle("Borrowed", None, raw, t)]

\* Mutant of DropHandleRef: the File is dropped, which closes the handle.
DropHandleRefCloses(file) ==
    IF file = "None" THEN [panic |-> TRUE, close |-> FALSE]
    ELSE [panic |-> FALSE, close |-> TRUE]

\* Drop for HandleRef on its Option<File>: take().unwrap() panics on None;
\* into_raw_handle() on the File gives the raw handle up without closing it.
DropHandleRef(file) ==
    IF file = "None" THEN [panic |-> TRUE, close |-> FALSE]
    ELSE [panic |-> FALSE, close |-> FALSE]

\* IntoRawHandle for HandleRef: take().unwrap().into_raw_handle(), then the
\* HandleRef (self, now holding what take() left) goes out of scope.
IntoRawHandleRef(file) ==
    LET taken == file
        left  == "None"
        d     == DropHandleRef(left)
    IN  [panic |-> taken = "None" \/ d.panic, close |-> d.close]

\* Drop of a winutil::Handle: its File is dropped, which closes the handle.
DropOwned(file) == [panic |-> FALSE, close |-> TRUE]

\* IntoRawHandle for winutil::Handle: File::into_raw_handle, no close.
IntoRawOwned(file) == [panic |-> FALSE, close |-> FALSE]

----------------------------------------------------------------------------
(* The state machine *)

\* How an operation ended: its io::Result (or a panic), the system calls it
\* made, and the raw handles it closed.
Result(op, result, calls, closed) ==
    [op |-> op, result |-> result, calls |-> calls, closed |-> closed]

Running == last.result # "panic"

Min(S) == CHOOSE x \in S : \A y \in S : x <= y

\* Where the next Handle is placed.
FreeSlots == {i \in Slots : handles[i] = NoHandle}
NewSlot(i) == FreeSlots # {} /\ i = Min(FreeSlots)

Init ==
    /\ fs \in {x \in [Files -> Meta \cup {NoFile}] :
                  \A f \in Files : x[f] \in MetaOf(f) \cup {NoFile}}
    /\ std \in {x \in [Streams -> Targets] :
                   \A s \in Streams : x[s] \in StdTargets(s) /\ Exists(x[s])}
    /\ stdClosed = {}
    /\ handles = [i \in Slots |-> NoHandle]
    /\ last = Result("start", "ok", <<>>, {})

\* Handle::from_path(p), the Handle (if any) stored at address i.
FromPath(i, p) ==
    /\ Running
    /\ NewSlot(i)
    /\ IF ~Exists(p)
       THEN \* OpenOptions::open fails, `?` returns the error
            /\ last' = Result("from_path", "err_open", <<"CreateFileW">>, {})
            /\ UNCHANGED handles
       ELSE LET raw == i
                r   == from_handle(raw, p)
            IN  IF r.ok
                THEN /\ handles' = [handles EXCEPT ![i] = r.handle]
                     /\ last' = Result("from_path", "ok",
                                       <<"CreateFileW", "GetFileInformationByHandle">>, {})
                ELSE \* the winutil::Handle is dropped: its File is closed
                     /\ last' = Result("from_path", "err_query",
                                       <<"CreateFileW", "GetFileInformationByHandle",
                                         "CloseHandle">>, {raw})
                     /\ UNCHANGED handles
    /\ UNCHANGED <<fs, std, stdClosed>>

\* Handle::from_file(file), for a File the caller has open on object t.
FromFile(i, t) ==
    /\ Running
    /\ NewSlot(i)
    /\ Exists(t)
    /\ LET raw == i
           r   == from_handle(raw, t)
       IN  IF r.ok
           THEN /\ handles' = [handles EXCEPT ![i] = r.handle]
                /\ last' = Result("from_file", "ok", <<"GetFileInformationByHandle">>, {})
           ELSE /\ last' = Result("from_file", "err_query",
                                  <<"GetFileInformationByHandle", "CloseHandle">>, {raw})
                /\ UNCHANGED handles
    /\ UNCHANGED <<fs, std, stdClosed>>

\* Handle::stdin(), Handle::stdout(), Handle::stderr().
StdStream(i, s) ==
    /\ Running
    /\ NewSlot(i)
    /\ LET r == from_std_handle(StdRaw(s), std[s])
       IN  /\ handles' = [handles EXCEPT ![i] = IF r.ok THEN r.handle ELSE NoHandle]
           /\ last' = Result(s, IF r.ok THEN "ok" ELSE "err_query",
                             <<"GetFileInformationByHandle">>, {})
    /\ UNCHANGED <<fs, std, stdClosed>>

stdin(i) == StdStream(i, "stdin")
stdout(i) == StdStream(i, "stdout")
stderr(i) == StdStream(i, "stderr")

\* The end of the Handle at address i by a release r = [panic, close]: the
\* close, if any, is on the raw handle of the Handle.
Release(op, i, r) ==
    LET h == handles[i]
    IN  /\ last' = Result(op, IF r.panic THEN "panic" ELSE "ok",
                          IF r.close THEN <<"CloseHandle">> ELSE <<>>,
                          IF r.close THEN {h.raw} ELSE {})
        /\ stdClosed' = IF r.close /\ h.kind = "Borrowed"
                        THEN stdClosed \cup {StreamOf(h.raw)}
                        ELSE stdClosed
        /\ handles' = [handles EXCEPT ![i] = NoHandle]

\* The Handle at address i goes out of scope.
Drop(i) ==
    /\ Running
    /\ handles[i] # NoHandle
    /\ LET h == handles[i]
       IN  Release("drop", i,
                   IF h.kind = "Owned" THEN DropOwned(h.file) ELSE DropHandleRef(h.file))
    /\ UNCHANGED <<fs, std>>

\* IntoRawHandle for crate::Handle, on the Handle at address i.
IntoRawHandle(i) ==
    /\ Running
    /\ handles[i] # NoHandle
    /\ LET h == handles[i]
       IN  Release("into_raw_handle", i,
                   IF h.kind = "Owned" THEN IntoRawOwned(h.file)
                   ELSE IntoRawHandleRef(h.file))
    /\ UNCHANGED <<fs, std>>

\* The file system changes under the process: a file with no open handle is
\* removed; a file is created, with whatever identity the volume gives it.
OsRemove(f) ==
    /\ fs[f] # NoFile
    /\ ~HasOpenHandle(f)
    /\ fs' = [fs EXCEPT ![f] = NoFile]
    /\ UNCHANGED <<std, stdClosed, handles, last>>

OsCreate(f, m) ==
    /\ fs[f] = NoFile
    /\ fs' = [fs EXCEPT ![f] = m]
    /\ UNCHANGED <<std, stdClosed, handles, last>>

Next ==
    \/ \E i \in Slots, p \in Targets : FromPath(i, p)
    \/ \E i \in Slots, t \in Targets : FromFile(i, t)
    \/ \E i \in Slots : stdin(i)
    \/ \E i \in Slots : stdout(i)
    \/ \E i \in Slots : stderr(i)
    \/ \E i \in Slots : Drop(i)
    \/ \E i \in Slots : IntoRawHandle(i)
    \/ \E f \in Files : OsRemove(f)
    \/ \E f \in Files : \E m \in MetaOf(f) : OsCreate(f, m)

Spec == Init /\ [][Next]_vars

----------------------------------------------------------------------------
(* What the claims speak of *)

KeyOf(a) == handles[a].key
FileOf(a) == handles[a].target
\* The identity the OS reports for the file behind Handle a, and its size.
IdOf(m) == <<m.serial, m.high, m.low>>
SizeOf(a) == fs[FileOf(a)].size
Owned(a) == handles[a].kind = "Owned"
Borrowed(a) == handles[a].kind = "Borrowed"

\* Both keys are present and agree in volume and in index.
KeysAgree(a, b) ==
    /\ IsSome(KeyOf(a)) /\ IsSome(KeyOf(b))
    /\ KeyOf(a).val.volume = KeyOf(b).val.volume
    /\ KeyOf(a).val.index = KeyOf(b).val.index

\* C1: a == b holds if and only if a and b are the identical object, or both
\* have a present key and the keys agree in both volume and index.
C1_EqIffIdenticalOrKeysAgree ==
    \A a \in Live : \A b \in Live : Eq(a, b) <=> (a = b \/ KeysAgree(a, b))

\* Two distinct Handles on one file are equal, and a third whose key is
\* present and differs is equal to neither.
C1_Witness ==
    \E a \in Live : \E b \in Live \ {a} : \E c \in Live \ {a, b} :
        /\ Eq(a, b)
        /\ IsSome(KeyOf(c)) /\ KeyOf(c) # KeyOf(a)
        /\ KeyOf(c).val.index = KeyOf(a).val.index
        /\ ~Eq(a, c) /\ ~Eq(c, b)

\* C2: equal Handles hash equally, and the hash depends only on the optional
\* key: Handles with the same optional key hash equally, whatever their
\* variant and their OS handle.
C2_HashConsistentWithEq ==
    \A a \in Live : \A b \in Live :
        /\ Eq(a, b) => Hash(handles[a]) = Hash(handles[b])
        /\ KeyOf(a) = KeyOf(b) => Hash(handles[a]) = Hash(handles[b])

\* An Owned and a Borrowed Handle on one file, with different OS handles, are
\* equal and hash equally.
C2_Witness ==
    \E a \in Live : \E b \in Live :
        /\ Owned(a) /\ Borrowed(b)
        /\ handles[a].raw # handles[b].raw
        /\ Eq(a, b)
        /\ Hash(handles[a]) = Hash(handles[b])

\* What the identity query on stream s gives.
StdQuery(s) == GetFileInformationByHandle(std[s])

\* C3: stdin(), stdout() and stderr() never return an error; they give a
\* Borrowed Handle whose key is present, and is that of the stream, when the
\* identity query succeeds and absent when it fails.
C3_StdNeverFails ==
    /\ last.op \in Streams =>
          /\ last.result = "ok"
          /\ \E a \in Live : Borrowed(a) /\ handles[a].raw = StdRaw(last.op)
    /\ \A a \in Live : Borrowed(a) =>
          LET q == StdQuery(StreamOf(handles[a].raw))
          IN  IF q.ret = 0 THEN IsNone(KeyOf(a))
              ELSE /\ IsSome(KeyOf(a))
                   /\ KeyOf(a).val.volume = U32Zero \o q.info.serial
                   /\ KeyOf(a).val.index = q.info.high \o q.info.low

\* A standard stream whose identity query fails has just been wrapped.
C3_Witness ==
    /\ last.op \in Streams
    /\ StdQuery(last.op).ret = 0
    /\ last.result = "ok"
    /\ \E a \in Live : Borrowed(a) /\ handles[a].raw = StdRaw(last.op) /\ IsNone(KeyOf(a))

Count(seq, x) == Cardinality({k \in 1..Len(seq) : seq[k] = x})

\* A step of from_path or from_file into address i on object t: it fails and
\* leaves the Handles as they were, or it stores an Owned Handle with a key.
Constructs(i, t) ==
    IF Exists(t) /\ t # NoIdentity
    THEN /\ last'.result = "ok"
         /\ handles'[i].kind = "Owned" /\ IsSome(handles'[i].key)
         /\ \A j \in Slots \ {i} : handles'[j] = handles[j]
    ELSE /\ last'.result = IF Exists(t) THEN "err_query" ELSE "err_open"
         /\ handles' = handles

\* C4: from_path and from_file either fail and produce no Handle, or produce
\* an Owned Handle whose key is present; from_path fails when the open fails
\* and both fail when the identity query fails; no Owned Handle has an absent
\* key; and no system call is issued twice by one operation.
C4_OwnedHasKeyOrFails ==
    /\ [](\A a \in Live : Owned(a) => IsSome(KeyOf(a)))
    /\ [](\A c \in {"CreateFileW", "GetFileInformationByHandle"} :
              Count(last.calls, c) <= 1)
    /\ [][\A i \in Slots : \A t \in Targets :
              (\/ last'.op = "from_path" /\ NewSlot(i) /\ FromPath(i, t)
               \/ last'.op = "from_file" /\ NewSlot(i) /\ FromFile(i, t))
              => Constructs(i, t)]_vars

\* from_path has just failed on the identity query, after one open and one query.
C4_Witness ==
    /\ last.op = "from_path"
    /\ last.result = "err_query"
    /\ last.calls = <<"CreateFileW", "GetFileInformationByHandle", "CloseHandle">>
    /\ Cardinality(last.closed) = 1

\* C5: dropping a Borrowed Handle never issues a close on the standard stream
\* it wraps, so no standard stream is ever closed; dropping an Owned Handle
\* closes its OS handle.
C5_DropClosesOwnedOnly ==
    /\ [](stdClosed = {})
    /\ [][\A i \in Slots : Drop(i) =>
              IF handles[i].kind = "Owned"
              THEN /\ last'.calls = <<"CloseHandle">>
                   /\ last'.closed = {handles[i].raw}
              ELSE /\ last'.calls = <<>>
                   /\ last'.closed = {}
                   /\ stdClosed' = stdClosed]_vars

\* A Borrowed Handle has just been dropped while another Borrowed Handle is
\* live; no stream was closed.
C5_Witness ==
    /\ last.op = "drop"
    /\ last.result = "ok"
    /\ last.calls = <<>>
    /\ last.closed = {}
    /\ \E a \in Live : Borrowed(a)
    /\ stdClosed = {}

\* No file that has an open handle shares its (volume, index) with another file.
OpenIdsUnique ==
    \A f \in Files : \A g \in Files \ {f} :
        (fs[f] # NoFile /\ fs[g] # NoFile /\ HasOpenHandle(f)) => IdOf(fs[f]) # IdOf(fs[g])

\* C6: when no file with an open handle shares its (volume, index) with
\* another file, two live Handles opened on the same file are equal and hash
\* equally, and two live Handles opened on different files are not equal.
C6_SameFileIffEqual ==
    OpenIdsUnique =>
        \A a \in Live : \A b \in Live :
            (Owned(a) /\ Owned(b)) =>
                IF FileOf(a) = FileOf(b)
                THEN Eq(a, b) /\ Hash(handles[a]) = Hash(handles[b])
                ELSE ~Eq(a, b)

\* h2 (at address 2) is open on file "A"; h3 has just been opened, at the
\* address a closed h1 left, from the path of the other file; h3 is not equal
\* to h2.
C6_Witness ==
    /\ OpenIdsUnique
    /\ Live = {1, 2}
    /\ Owned(1) /\ Owned(2)
    /\ FileOf(2) = "A" /\ FileOf(1) = "B"
    /\ last.op = "from_path" /\ last.result = "ok"
    /\ ~Eq(1, 2)

\* C7: Handle equality is reflexive (also for a Handle whose key is absent),
\* symmetric and transitive over the live Handles.
C7_EqIsEquivalence ==
    /\ \A a \in Live : Eq(a, a)
    /\ \A a \in Live : \A b \in Live : Eq(a, b) => Eq(b, a)
    /\ \A a \in Live : \A b \in Live : \A c \in Live :
           (Eq(a, b) /\ Eq(b, c)) => Eq(a, c)

\* Three distinct Handles, equal to one another, and one of them Borrowed.
C7_Witness ==
    /\ Live = Slots
    /\ \A a \in Slots : \A b \in Slots : Eq(a, b)
    /\ \E a \in Slots : Borrowed(a)

\* A Handle whose key is absent is equal to itself and to no other.
C7_WitnessAbsent ==
    \E a \in Live : \E b \in Live \ {a} :
        IsNone(KeyOf(a)) /\ IsNone(KeyOf(b)) /\ Eq(a, a) /\ ~Eq(a, b)

\* C8: two distinct Handles whose volume and index agree but whose files
\* differ in size do not compare equal.
C8_SizeIsChecked ==
    \A a \in Live : \A b \in Live \ {a} :
        (KeysAgree(a, b) /\ SizeOf(a) # SizeOf(b)) => ~Eq(a, b)

\* C9: into_raw_handle completes normally: the stored file is taken once and
\* the drop that follows does not find it taken; no close is issued.
C9_IntoRawCompletes ==
    last.op = "into_raw_handle" => (last.result = "ok" /\ last.closed = {})

\* C10: the key of a Handle is the metadata of its file packed without loss:
\* volume is the serial zero-extended, index is high * 2^32 + low (the limbs
\* of high followed by those of low); and two files yield equal keys if and
\* only if their (serial, high, low) agree.
C10_KeyPackedWithoutLoss ==
    /\ \A a \in Live : IsSome(KeyOf(a)) =>
          LET m == fs[FileOf(a)]
          IN  /\ KeyOf(a).val.volume = U32Zero \o m.serial
              /\ KeyOf(a).val.index = m.high \o m.low
    /\ \A a \in Live : \A b \in Live :
          (IsSome(KeyOf(a)) /\ IsSome(KeyOf(b))) =>
              (KeyOf(a) = KeyOf(b) <=> IdOf(fs[FileOf(a)]) = IdOf(fs[FileOf(b)]))
    /\ \A f \in Files : \A g \in Files :
          (fs[f] # NoFile /\ fs[g] # NoFile) =>
              (information(f).key = information(g).key <=> IdOf(fs[f]) = IdOf(fs[g]))

\* Two live Handles on files that differ in the high index word alone, with
\* all bits of that word set in one of them: their keys differ.
C10_Witness ==
    \E a \in Live : \E b \in Live :
        /\ IsSome(KeyOf(a)) /\ IsSome(KeyOf(b))
        /\ fs[FileOf(a)].serial = fs[FileOf(b)].serial
        /\ fs[FileOf(a)].low = fs[FileOf(b)].low
        /\ fs[FileOf(a)].high = U32One /\ fs[FileOf(b)].high = U32Max
        /\ KeyOf(a) # KeyOf(b)

====
